---- MODULE Spec2Model ----
(***************************************************************************)
(* A model of the namu-and-rocky photo-feed backend.  The repository holds *)
(* four backend programs, near-duplicates of one service:                  *)
(*   "prefix"  src/unnamed/part_000   feedOrder, first-N or random-N       *)
(*   "random"  src/unnamed/part_001   stateless random sample              *)
(*   "refresh" src/backend/main.go:1-257    per-client feed, /refresh      *)
(*   "voting"  src/backend/main.go:259-593  per-client feed, upload that   *)
(*             records the new key in the cache                            *)
(* A fifth program, "pagination", serves pages of the store's listing; the  *)
(* repository holds only its browser client, src/frontend/main.js.         *)
(* The variable variant says which program is running; it never changes.   *)
(* A request is a slot of req; its pc is the handler's position.  Handlers *)
(* are cut into steps at their lock operations and object-store calls.  A  *)
(* handler's last step leaves its response in the slot (pc = "done"); the  *)
(* response is then handed to the caller (Return) before any other step,   *)
(* which frees the slot.  Return touches nothing but the slot, so this     *)
(* order loses no state of the program.                                    *)
(***************************************************************************)
EXTENDS Integers, Sequences, FiniteSets, TLC

\* ------------------------------------------------------------------ bounds
MaxKeys == 3
MaxPrefixKeys == 6
MaxReqs == 2
MaxVotes == 3
MaxFails == 1

\* --------------------------------------------------------- program constants
MAX_KEYS == 1000
DefaultLimit == 5
PublicBaseURL == "https://pub.r2.dev"
MaxPageSize == 100

VARIABLES
    variant,        \* which of the four programs this process is
    proc,           \* "starting" | "serving" | "exited" (log.Fatal)
    store,          \* keys of the objects in the bucket ("" : an entry with a nil or empty Key)
    feedByKey,      \* S3 key -> full URL
    feedOrder,      \* URLs in list order (the prefix program only)
    requestSeen,    \* client key -> set of URLs already returned to that key
    feedByKeyMu,    \* sync.RWMutex: [readers, writer, pending]; pending is the
                    \* request whose Lock() waits for the readers to leave
    requestSeenMu,  \* sync.Mutex: the request holding it, 0 when free
    req,            \* request slot -> handler state and response
    delivered,      \* history: client key -> URL -> deliveries since the client's last reset
    calls,          \* history: client key -> non-empty responses since the client's last reset
    votes,          \* the votes table: client key -> [namu_is_tuxedo, vote_count]
    ballots,        \* history: the votes the table accepted, oldest first
    pager,          \* the browser's cursor client: nextCursor, loading, the images appended
    uploaded        \* history: the keys of the uploads answered 200

vars == <<variant, proc, store, feedByKey, feedOrder, requestSeen,
          feedByKeyMu, requestSeenMu, req, delivered, calls, votes, ballots, pager,
          uploaded>>
hist == <<delivered, calls>>
side == <<votes, ballots, pager, uploaded>>

\* ------------------------------------------------------------------ universe
Variants == {"prefix", "random", "refresh", "voting"}
PerClientVariants == {"refresh", "voting"}
Reqs == 1..MaxReqs
Clients == {"x", "y"}
Methods == {"GET", "POST", "OPTIONS"}

KeyName(i) == "k" \o ToString(i) \o ".jpg"
Now == "2026-01-02-150405"

Min(a, b) == IF a < b THEN a ELSE b
Range(s) == {s[i] : i \in 1..Len(s)}
Take(s, n) == SubSeq(s, 1, Min(n, Len(s)))

\* The enumerations of a finite set: rand.Perm over indices, and the order in
\* which range visits a map.
RECURSIVE Perms(_)
Perms(S) ==
    IF S = {} THEN {<<>>}
    ELSE UNION {{<<x>> \o p : p \in Perms(S \ {x})} : x \in S}

\* ------------------------------------------------------------- object store
\* The keys of a bucket that already holds many objects: MAX_KEYS keys of
\* equal length, all of which sort before every KeyName.
BulkKey(i) == "b" \o ToString(10 * MAX_KEYS + i)
BulkKeys == {BulkKey(i) : i \in 1..MAX_KEYS}

\* Every key a listing can return, in the store's (lexicographic) key order.
KeyOrder ==
    <<"", Now \o ".", Now \o ".jpg">> \o [i \in 1..MAX_KEYS |-> BulkKey(i)]
        \o [i \in 1..MaxKeys + MaxPrefixKeys |-> KeyName(i)]

\* s3Client.ListObjectsV2 with MaxKeys = MAX_KEYS: the first MAX_KEYS keys.
ListObjectsV2(s) == Take(SelectSeq(KeyOrder, LAMBDA k : k \in s), MAX_KEYS)

URLOf(key) == PublicBaseURL \o "/" \o key

\* Mutant: the cache rebuilt from the listing alone.
MergeRebuild(cache, listed) == [k \in Range(listed) \ {""} |-> URLOf(k)]

\* The startup / refresh loop over out.Contents: skip empty keys and keys
\* already present, keep every existing entry.  What an iteration does to a
\* key does not depend on the iterations before it, so the loop's result is
\* given in one piece.
MergeListing(cache, listed) ==
    LET fresh == {listed[i] : i \in {j \in 1..Len(listed) :
                                        listed[j] # "" /\ listed[j] \notin DOMAIN cache}}
    IN [k \in DOMAIN cache \cup fresh |->
           IF k \in DOMAIN cache THEN cache[k] ELSE URLOf(k)]

\* The prefix program's startup loop: feedOrder gets each new key's URL, in
\* list order.
RECURSIVE LoadOrder(_, _, _)
LoadOrder(cache, order, listed) ==
    IF listed = <<>> THEN order
    ELSE LET key == Head(listed)
             fresh == key # "" /\ key \notin DOMAIN cache
         IN LoadOrder(IF fresh THEN MergeListing(cache, <<key>>) ELSE cache,
                      IF fresh THEN Append(order, URLOf(key)) ELSE order,
                      Tail(listed))

EmptyMap == [k \in {} |-> ""]
CacheURLs == {feedByKey[k] : k \in DOMAIN feedByKey}

\* for _, u := range feedByKey { allURLs = append(allURLs, u) }: the values.
\* range visits a map in an order of its own choosing; a slice filled by it
\* is held as the set of its elements, and its order is drawn (InOrder) by the
\* step that first indexes it.
MapValues(m) == {m[k] : k \in DOMAIN m}
InOrder(S) == Perms(S)

\* ------------------------------------------------------------------ requests
\* kind, method, rawLimit, random, clientKey, namuIsTuxedo: the request
\* (clientKey is also a vote's key).  totals: the /consensus response.  limit, n,
\* allURLs, available, listed, key: the handler's variables.  status, urls,
\* count: the response.  seenBefore, reset, callNo: what the handler found in
\* its critical section (the client's seen set, whether it cleared it, and
\* which call of the client's cycle this is).  known: the uploads that had
\* been answered 200 when a /refresh request arrived.
Idle ==
    [pc |-> "idle", kind |-> "none", method |-> "", rawLimit |-> <<>>,
     random |-> FALSE, clientKey |-> "", limit |-> 0, n |-> 0, allURLs |-> {},
     available |-> {}, seenBefore |-> {}, reset |-> FALSE, callNo |-> 0,
     listed |-> <<>>, key |-> "", status |-> 0, urls |-> <<>>, count |-> 0,
     namuIsTuxedo |-> FALSE, totals |-> [namu_is_tuxedo |-> 0, namu_is_not_tuxedo |-> 0],
     known |-> {}]

New(kind, m) == [Idle EXCEPT !.kind = kind, !.method = m]

\* No response is waiting to be handed to its caller.
NoPending == \A r \in Reqs : req[r].pc # "done"
Free(r) == NoPending /\ req[r].pc = "idle"
At(r, pc) == NoPending /\ req[r].pc = pc

\* A handler's answer: its variables are dropped, the request and the
\* response stay.
Answer(q, status) ==
    [q EXCEPT !.pc = "done", !.status = status, !.allURLs = {}, !.available = {}]

Return(r) ==
    /\ req[r].pc = "done"
    /\ req' = [req EXCEPT ![r] = Idle]
    /\ UNCHANGED <<variant, proc, store, feedByKey, feedOrder, requestSeen,
                   feedByKeyMu, requestSeenMu, hist, side>>

\* The votes table of a fresh database, and the browser before its script runs.
NoVotes == [c \in {} |-> [namu_is_tuxedo |-> FALSE, vote_count |-> 0]]
\* pager: limit is the limit the script asks for, nextCursor and loading its
\* variables ("" is null), cursor the cursor of the fetch in flight, items the
\* URLs of the images appended to the feed, text loadEl.textContent, started
\* whether the script has run, fails the fetches that failed.
NoPager == [limit |-> <<"4">>, nextCursor |-> "", loading |-> FALSE, cursor |-> "",
            items |-> <<>>, text |-> "index.html", started |-> FALSE, fails |-> 0]

\* ------------------------------------------------------------------- startup
\* The bucket at startup: the first n keys, and in the program that lists
\* again later, possibly an entry without a key.
InitialStores(v, bound) ==
    {{KeyName(i) : i \in 1..n} \cup e :
        n \in 0..(IF v = "prefix" THEN bound ELSE MaxKeys),
        e \in IF v = "refresh" THEN {{}, {""}} ELSE {{}}}

\* The same buckets, and in the refresh program each of them again on top of
\* MAX_KEYS objects.
BigStores(v, bound) ==
    InitialStores(v, bound) \cup
        (IF v = "refresh" THEN {BulkKeys \cup s : s \in InitialStores(v, bound)} ELSE {})

InitWith(variants, bound) ==
    /\ variant \in variants
    /\ proc = "starting"
    /\ store \in InitialStores(variant, bound)
    /\ feedByKey = EmptyMap
    /\ feedOrder = <<>>
    /\ requestSeen = [c \in {} |-> {}]
    /\ feedByKeyMu = [readers |-> {}, writer |-> 0, pending |-> 0]
    /\ requestSeenMu = 0
    /\ req = [r \in Reqs |-> Idle]
    /\ delivered = [c \in Clients |-> <<>>]
    /\ calls = [c \in Clients |-> 0]
    /\ votes = NoVotes
    /\ ballots = <<>>
    /\ pager = NoPager
    /\ uploaded = {}

Init == InitWith(Variants, MaxKeys)

\* main: the startup listing; a failure is log.Fatalf.
Startup ==
    /\ proc = "starting"
    /\ \E ok \in BOOLEAN :
         IF ok
         THEN /\ feedByKey' = MergeListing(EmptyMap, ListObjectsV2(store))
              /\ feedOrder' = IF variant = "prefix"
                              THEN LoadOrder(EmptyMap, <<>>, ListObjectsV2(store))
                              ELSE <<>>
              /\ proc' = "serving"
         ELSE /\ proc' = "exited"
              /\ UNCHANGED <<feedByKey, feedOrder>>
    /\ UNCHANGED <<variant, store, requestSeen, feedByKeyMu, requestSeenMu, req, hist, side>>


\* Mutant: a startup listing failure that is logged and not fatal.
ServingAfterFatal == proc \in {"serving", "exited"}

\* http.ListenAndServe is reached only when the startup listing succeeded.
Serving == proc = "serving"

\* ------------------------------------------------------------- limit param
\* The limit query parameter, as its characters; <<>> is an absent parameter.
LimitParams == {<<>>, <<"x">>, <<"0">>, <<"-", "1">>, <<"1">>, <<"2">>, <<"1", "0">>}
FewLimitParams == {<<>>, <<"1">>, <<"2">>}

DigitChars == <<"0", "1", "2", "3", "4", "5", "6", "7", "8", "9">>
IsDigit(c) == \E d \in 1..10 : DigitChars[d] = c
DigitVal(c) == (CHOOSE d \in 1..10 : DigitChars[d] = c) - 1

RECURSIVE DigitsVal(_, _)
DigitsVal(s, acc) ==
    IF s = <<>> THEN acc ELSE DigitsVal(Tail(s), acc * 10 + DigitVal(Head(s)))

\* strconv.Atoi: an optional sign, then one or more decimal digits.
Atoi(s) ==
    LET signed == s # <<>> /\ Head(s) \in {"+", "-"}
        digits == IF signed THEN Tail(s) ELSE s
        ok == digits # <<>> /\ \A i \in 1..Len(digits) : IsDigit(digits[i])
        n == IF ok THEN DigitsVal(digits, 0) ELSE 0
    IN [ok |-> ok, n |-> IF signed /\ Head(s) = "-" THEN 0 - n ELSE n]

\* Mutant: the parse without its n > 0 check.
ParseLimitUnchecked(raw) ==
    IF raw # <<>> /\ Atoi(raw).ok THEN Atoi(raw).n ELSE DefaultLimit

\* limit := 5; if l != "" { if n, err := Atoi(l); err == nil && n > 0 { limit = n } }
ParseLimit(raw) ==
    IF raw # <<>> /\ Atoi(raw).ok /\ Atoi(raw).n > 0 THEN Atoi(raw).n ELSE DefaultLimit

\* if limit > n { limit = n }
Clamp(limit, n) == IF limit > n THEN n ELSE limit

\* The CORS middleware (OPTIONS: 204) and the handler's method check (405).
Rejected(m, allowed) == m # allowed
RejectStatus(m) == IF m = "OPTIONS" THEN 204 ELSE 405

\* ------------------------------------------------- /feed, per-client programs
\* Mutant: the handler without its key check.
KeyNeverMissing(ck) == FALSE

\* clientKey == "": the request is answered 400.
KeyMissing(ck) == ck = ""

\* Mutant: the handler without its n == 0 answer.
NeverEmpty(n) == FALSE

\* n == 0: nothing is cached, the request is answered with no URLs.
NothingCached(n) == n = 0

\* Mutant: Lock() that does not wait for the holder.
MutexIgnored == TRUE

\* requestSeenMu.Lock() returns when no request holds the mutex.
MutexFree == requestSeenMu = 0

\* Mutant: the answer made without requestSeenMu.Unlock().
SeenStillLocked == requestSeenMu

\* requestSeenMu.Unlock()
SeenUnlocked == 0

\* available: the URLs of all not in seen (in all's order).
Unseen(all, seen) == {u \in all : u \notin seen}

\* Mutant: the reset taken as soon as fewer URLs are unseen than the limit asks.
ExhaustedBelowLimit(available, limit) == Cardinality(available) < limit

\* len(available) == 0: the client has seen every URL of the snapshot.
Exhausted(available, limit) == Cardinality(available) = 0

\* Mutant: the reset that forgets to empty the seen set.
NotCleared(seen) == seen

\* for u := range seen { delete(seen, u) }
Cleared(seen) == {}

\* Mutant: n independent random indices (rand.Intn each) instead of a permutation.
RandIndices(n) == [1..n -> 1..n]

\* idx := rand.Perm(len(available))
RandPerm(n) == Perms(1..n)

\* out[i] = available[idx[i]] for i < count
Select(available, idx, count) == [i \in 1..count |-> available[idx[i]]]

\* Every out the selection can produce from a slice in a given order.
Samples(slice, count) == {Select(slice, idx, count) : idx \in RandPerm(Len(slice))}

\* Every out the selection can produce from a slice filled by a range over a map.
MapSamples(S, count) == UNION {Samples(slice, count) : slice \in InOrder(S)}

\* Mutant: one seen set shared by every client key.
SeenOfAll(c) == UNION {requestSeen[k] : k \in DOMAIN requestSeen}

\* seen, ok := requestSeen[clientKey]; a new, empty set when there is none.
SeenOf(c) == IF c \in DOMAIN requestSeen THEN requestSeen[c] ELSE {}
BagAdd(b, U) ==
    [u \in DOMAIN b \cup U |->
        (IF u \in DOMAIN b THEN b[u] ELSE 0) + (IF u \in U THEN 1 ELSE 0)]

FeedStart(r, limits, clients) ==
    /\ Serving
    /\ variant \in PerClientVariants
    /\ Free(r)
    /\ \E m \in Methods, raw \in limits, ck \in clients :
         LET q == [New("feed", m) EXCEPT !.rawLimit = raw, !.clientKey = ck]
         IN IF Rejected(m, "GET")
            THEN req' = [req EXCEPT ![r] = Answer(New("feed", m), RejectStatus(m))]
            ELSE IF KeyMissing(ck)
            THEN req' = [req EXCEPT ![r] = Answer(q, 400)]
            ELSE req' = [req EXCEPT ![r] =
                           [q EXCEPT !.pc = "rlock", !.limit = ParseLimit(raw)]]
    /\ UNCHANGED <<variant, proc, store, feedByKey, feedOrder, requestSeen,
                   feedByKeyMu, requestSeenMu, hist, side>>

\* RLock() returns when no request writes the cache or waits in Lock(): a
\* blocked Lock call keeps new readers from acquiring the lock.
ReadFree == feedByKeyMu.writer = 0 /\ feedByKeyMu.pending = 0

\* feedByKeyMu.RLock()
FeedRLock(r) ==
    /\ At(r, "rlock")
    /\ ReadFree
    /\ feedByKeyMu' = [feedByKeyMu EXCEPT !.readers = @ \cup {r}]
    /\ req' = [req EXCEPT ![r].pc = "snapshot"]
    /\ UNCHANGED <<variant, proc, store, feedByKey, feedOrder, requestSeen,
                   requestSeenMu, hist, side>>

\* The copy of the cache's URLs, RUnlock, the n == 0 answer and the clamp.
FeedSnapshot(r) ==
    /\ At(r, "snapshot")
    /\ feedByKeyMu' = [feedByKeyMu EXCEPT !.readers = @ \ {r}]
    /\ LET all == MapValues(feedByKey)
           n == Cardinality(all)
       IN IF NothingCached(n)
          THEN req' = [req EXCEPT ![r] = Answer(req[r], 200)]
          ELSE req' = [req EXCEPT ![r].pc = "lock", ![r].allURLs = all, ![r].n = n,
                                  ![r].limit = Clamp(@, n)]
    /\ UNCHANGED <<variant, proc, store, feedByKey, feedOrder, requestSeen,
                   requestSeenMu, hist, side>>

\* requestSeenMu.Lock()
FeedLock(r) ==
    /\ At(r, "lock")
    /\ MutexFree
    /\ requestSeenMu' = r
    /\ req' = [req EXCEPT ![r].pc = "filter"]
    /\ UNCHANGED <<variant, proc, store, feedByKey, feedOrder, requestSeen,
                   feedByKeyMu, hist, side>>

\* Look up or create the client's seen set, filter the snapshot, and clear
\* the seen set when nothing is left.
FeedFilter(r) ==
    /\ At(r, "filter")
    /\ LET c == req[r].clientKey
           seen == SeenOf(c)
           available == Unseen(req[r].allURLs, seen)
           reset == Exhausted(available, req[r].limit)
       IN /\ requestSeen' = [k \in DOMAIN requestSeen \cup {c} |->
                               IF k = c THEN (IF reset THEN Cleared(seen) ELSE seen)
                               ELSE requestSeen[k]]
          /\ req' = [req EXCEPT ![r].pc = "pick", ![r].seenBefore = seen,
                                ![r].reset = reset, ![r].callNo = calls[c] + 1,
                                ![r].available = IF reset THEN req[r].allURLs
                                                 ELSE available]
          /\ delivered' = IF reset THEN [delivered EXCEPT ![c] = <<>>] ELSE delivered
          /\ calls' = IF reset THEN [calls EXCEPT ![c] = 0] ELSE calls
    /\ UNCHANGED <<variant, proc, store, feedByKey, feedOrder, feedByKeyMu,
                   requestSeenMu, side>>

\* rand.Perm, the selection, the marking, requestSeenMu.Unlock() and the answer.
FeedPick(r) ==
    /\ At(r, "pick")
    /\ LET c == req[r].clientKey
           count == Clamp(req[r].limit, Cardinality(req[r].available))
       IN \E out \in MapSamples(req[r].available, count) :
               /\ requestSeen' = [requestSeen EXCEPT ![c] = @ \cup Range(out)]
               /\ delivered' = [delivered EXCEPT ![c] = BagAdd(@, Range(out))]
               /\ calls' = [calls EXCEPT ![c] = @ + 1]
               /\ req' = [req EXCEPT ![r] = Answer([req[r] EXCEPT !.urls = out], 200)]
    /\ requestSeenMu' = SeenUnlocked
    /\ UNCHANGED <<variant, proc, store, feedByKey, feedOrder, feedByKeyMu, side>>

FeedSteps(r) ==
    \/ FeedRLock(r)
    \/ FeedSnapshot(r)
    \/ FeedLock(r)
    \/ FeedFilter(r)
    \/ FeedPick(r)

\* ---------------------------------------------- /feed, the stateless programs
\* part_001: a random sample of the cache, no memory of earlier requests.
FeedRandom(r, limits) ==
    /\ Serving
    /\ variant = "random"
    /\ Free(r)
    /\ \E m \in Methods, raw \in limits :
         LET q == [New("feed", m) EXCEPT !.rawLimit = raw]
         IN IF Rejected(m, "GET")
            THEN req' = [req EXCEPT ![r] = Answer(New("feed", m), RejectStatus(m))]
            ELSE LET urls == MapValues(feedByKey)
                     n == Cardinality(urls)
                     limit == Clamp(ParseLimit(raw), n)
                 IN \E out \in MapSamples(urls, limit) :
                      req' = [req EXCEPT ![r] =
                                Answer([q EXCEPT !.limit = limit, !.n = n,
                                                 !.urls = out], 200)]
    /\ UNCHANGED <<variant, proc, store, feedByKey, feedOrder, requestSeen,
                   feedByKeyMu, requestSeenMu, hist, side>>

\* part_000: the first limit URLs of feedOrder, or with random=true a random
\* sample of it.
FeedPrefix(r, limits) ==
    /\ Serving
    /\ variant = "prefix"
    /\ Free(r)
    /\ \E m \in Methods, raw \in limits, random \in BOOLEAN :
         LET q == [New("feed", m) EXCEPT !.rawLimit = raw, !.random = random]
             n == Len(feedOrder)
             limit == Clamp(ParseLimit(raw), n)
         IN IF Rejected(m, "GET")
            THEN req' = [req EXCEPT ![r] = Answer(New("feed", m), RejectStatus(m))]
            ELSE IF random
            THEN \E out \in Samples(feedOrder, limit) :
                   req' = [req EXCEPT ![r] =
                             Answer([q EXCEPT !.limit = limit, !.n = n, !.urls = out], 200)]
            ELSE req' = [req EXCEPT ![r] =
                           Answer([q EXCEPT !.limit = limit, !.n = n,
                                            !.urls = SubSeq(feedOrder, 1, limit)], 200)]
    /\ UNCHANGED <<variant, proc, store, feedByKey, feedOrder, requestSeen,
                   feedByKeyMu, requestSeenMu, hist, side>>

\* ------------------------------------------------------------------ /refresh
\* feedByKeyMu.Lock() returns when no request reads or writes the cache.
WriteFree == feedByKeyMu.writer = 0 /\ feedByKeyMu.readers = {}

\* Lock() first takes its turn among the writers: no other request writes
\* the cache or waits in Lock().
WriterTurn == feedByKeyMu.writer = 0 /\ feedByKeyMu.pending = 0

\* Lock() is entered: from here on no new reader acquires the lock.
LockEntered(r) == [feedByKeyMu EXCEPT !.pending = r]

\* Lock() returns: the readers have left.
LockHeld(r) == [feedByKeyMu EXCEPT !.pending = 0, !.writer = r]

RefreshStart(r) ==
    /\ Serving
    /\ variant = "refresh"
    /\ Free(r)
    /\ \E m \in Methods :
         IF Rejected(m, "GET")
         THEN req' = [req EXCEPT ![r] = Answer(New("refresh", m), RejectStatus(m))]
         ELSE req' = [req EXCEPT ![r] = [New("refresh", m) EXCEPT !.pc = "list",
                                                                   !.known = uploaded]]
    /\ UNCHANGED <<variant, proc, store, feedByKey, feedOrder, requestSeen,
                   feedByKeyMu, requestSeenMu, hist, side>>

\* s3Client.ListObjectsV2: the listing, or an error answered 500.
RefreshList(r) ==
    /\ At(r, "list")
    /\ \E ok \in BOOLEAN :
         IF ok
         THEN req' = [req EXCEPT ![r].pc = "wlock", ![r].listed = ListObjectsV2(store)]
         ELSE req' = [req EXCEPT ![r] = Answer(req[r], 500)]
    /\ UNCHANGED <<variant, proc, store, feedByKey, feedOrder, requestSeen,
                   feedByKeyMu, requestSeenMu, hist, side>>

\* feedByKeyMu.Lock() is entered
RefreshLock(r) ==
    /\ At(r, "wlock")
    /\ req[r].kind = "refresh"
    /\ WriterTurn
    /\ feedByKeyMu' = LockEntered(r)
    /\ req' = [req EXCEPT ![r].pc = "wwait"]
    /\ UNCHANGED <<variant, proc, store, feedByKey, feedOrder, requestSeen,
                   requestSeenMu, hist, side>>

\* feedByKeyMu.Lock() returns
RefreshLocked(r) ==
    /\ At(r, "wwait")
    /\ req[r].kind = "refresh"
    /\ WriteFree
    /\ feedByKeyMu' = LockHeld(r)
    /\ req' = [req EXCEPT ![r].pc = "merge"]
    /\ UNCHANGED <<variant, proc, store, feedByKey, feedOrder, requestSeen,
                   requestSeenMu, hist, side>>

\* Mutant: the refresh loop without its test for an empty key.
RefreshedWithEmptyKey(cache, listed) ==
    [k \in DOMAIN cache \cup Range(listed) |->
        IF k \in DOMAIN cache THEN cache[k] ELSE URLOf(k)]

\* for _, obj := range out.Contents { ... } under feedByKeyMu.Lock()
Refreshed(cache, listed) == MergeListing(cache, listed)

\* The merge of the listing, count := len(feedByKey), Unlock and the answer.
RefreshMerge(r) ==
    /\ At(r, "merge")
    /\ feedByKey' = Refreshed(feedByKey, req[r].listed)
    /\ feedByKeyMu' = [feedByKeyMu EXCEPT !.writer = 0]
    /\ req' = [req EXCEPT ![r] =
                 Answer([req[r] EXCEPT !.count = Cardinality(DOMAIN feedByKey')], 200)]
    /\ UNCHANGED <<variant, proc, store, feedOrder, requestSeen, requestSeenMu, hist, side>>

RefreshSteps(r) ==
    \/ RefreshList(r)
    \/ RefreshLock(r)
    \/ RefreshLocked(r)
    \/ RefreshMerge(r)

\* ------------------------------------------------------------------- /upload
\* An uploaded file's name, as its path elements; <<>> is the empty name.
UploadFilenames == {<<>>, <<"cats", KeyName(MaxKeys)>>}
FewUploadFilenames == {<<"cats", KeyName(MaxKeys)>>}

\* filepath.Base: the last element of the path, "." for the empty path.
Base(path) == IF path = <<>> THEN "." ELSE path[Len(path)]

\* filepath.Ext of a name whose Base is ".": "" for the empty name, "." for a
\* name that ends in the element ".".
Ext(path) == IF path = <<>> THEN "" ELSE "."

\* key := filepath.Base(header.Filename), or date-time-ext when that is "" or ".".
UploadKey(path) ==
    IF Base(path) = "" \/ Base(path) = "."
    THEN Now \o (IF Ext(path) = "" THEN ".jpg" ELSE Ext(path))
    ELSE Base(path)

UploadStart(r, filenames) ==
    /\ Serving
    /\ Free(r)
    /\ \E m \in Methods, hasImage \in BOOLEAN, path \in filenames :
         IF Rejected(m, "POST")
         THEN req' = [req EXCEPT ![r] = Answer(New("upload", m), RejectStatus(m))]
         ELSE IF ~hasImage
         THEN req' = [req EXCEPT ![r] = Answer(New("upload", m), 400)]
         ELSE req' = [req EXCEPT ![r] =
                        [New("upload", m) EXCEPT !.pc = "put", !.key = UploadKey(path)]]
    /\ UNCHANGED <<variant, proc, store, feedByKey, feedOrder, requestSeen,
                   feedByKeyMu, requestSeenMu, hist, side>>

\* s3Client.PutObject: the object is stored, or an error answered 500.  Only
\* the voting program goes on to record the key in the cache.
UploadPut(r) ==
    /\ At(r, "put")
    /\ \E ok \in BOOLEAN :
         IF ok
         THEN /\ store' = store \cup {req[r].key}
              /\ req' = IF variant = "voting"
                        THEN [req EXCEPT ![r].pc = "wlock"]
                        ELSE [req EXCEPT ![r] = Answer(req[r], 200)]
              /\ uploaded' = IF variant = "voting" THEN uploaded
                             ELSE uploaded \cup {req[r].key}
         ELSE /\ store' = store
              /\ req' = [req EXCEPT ![r] = Answer([req[r] EXCEPT !.key = ""], 500)]
              /\ uploaded' = uploaded
    /\ UNCHANGED <<variant, proc, feedByKey, feedOrder, requestSeen,
                   feedByKeyMu, requestSeenMu, hist, votes, ballots, pager>>

\* feedByKeyMu.Lock() is entered
UploadLock(r) ==
    /\ At(r, "wlock")
    /\ req[r].kind = "upload"
    /\ WriterTurn
    /\ feedByKeyMu' = LockEntered(r)
    /\ req' = [req EXCEPT ![r].pc = "wwait"]
    /\ UNCHANGED <<variant, proc, store, feedByKey, feedOrder, requestSeen,
                   requestSeenMu, hist, side>>

\* feedByKeyMu.Lock() returns
UploadLocked(r) ==
    /\ At(r, "wwait")
    /\ req[r].kind = "upload"
    /\ WriteFree
    /\ feedByKeyMu' = LockHeld(r)
    /\ req' = [req EXCEPT ![r].pc = "record"]
    /\ UNCHANGED <<variant, proc, store, feedByKey, feedOrder, requestSeen,
                   requestSeenMu, hist, side>>

\* Mutant: an upload that leaves the cache to a later listing.
NotRecorded(cache, key) == cache

\* feedByKey[key] = publicBaseURL + "/" + key
Record(cache, key) ==
    [k \in DOMAIN cache \cup {key} |-> IF k = key THEN URLOf(key) ELSE cache[k]]

\* The cache entry, Unlock and the answer.
UploadRecord(r) ==
    /\ At(r, "record")
    /\ feedByKey' = Record(feedByKey, req[r].key)
    /\ feedByKeyMu' = [feedByKeyMu EXCEPT !.writer = 0]
    /\ req' = [req EXCEPT ![r] = Answer(req[r], 200)]
    /\ uploaded' = uploaded \cup {req[r].key}
    /\ UNCHANGED <<variant, proc, store, feedOrder, requestSeen, requestSeenMu, hist,
                   votes, ballots, pager>>

UploadSteps(r) ==
    \/ UploadPut(r)
    \/ UploadLock(r)
    \/ UploadLocked(r)
    \/ UploadRecord(r)

\* --------------------------------------------------------- /vote, /consensus
\* The body of a POST /vote: text that is not JSON, or an object whose key and
\* namu_is_tuxedo are "" and false when the member is missing.
VoteBodies ==
    {[json |-> FALSE, key |-> "", namu_is_tuxedo |-> FALSE]} \cup
    {[json |-> TRUE, key |-> k, namu_is_tuxedo |-> b] : k \in Clients \cup {""}, b \in BOOLEAN}

\* json.NewDecoder(r.Body).Decode(&req)
Decode(body) ==
    IF body.json
    THEN [err |-> FALSE, Key |-> body.key, NamuIsTuxedo |-> body.namu_is_tuxedo]
    ELSE [err |-> TRUE, Key |-> "", NamuIsTuxedo |-> FALSE]

\* Mutant: on conflict the boolean is overwritten and the count is left alone.
UpsertKeepsCount(table, key, b) ==
    [k \in DOMAIN table \cup {key} |->
        IF k # key THEN table[k]
        ELSE [namu_is_tuxedo |-> b,
              vote_count |-> IF key \in DOMAIN table THEN table[key].vote_count ELSE 1]]

\* INSERT INTO votes (key, namu_is_tuxedo, vote_count) VALUES ($1, $2, 1)
\* ON CONFLICT (key) DO UPDATE SET namu_is_tuxedo = $2, vote_count = votes.vote_count + 1
Upsert(table, key, b) ==
    [k \in DOMAIN table \cup {key} |->
        IF k # key THEN table[k]
        ELSE [namu_is_tuxedo |-> b,
              vote_count |-> IF key \in DOMAIN table THEN table[key].vote_count + 1 ELSE 1]]

\* Mutant: SUM(vote_count) in place of COUNT(*).
GroupSum(table) ==
    LET RECURSIVE Sum(_)
        Sum(S) == IF S = {} THEN 0
                  ELSE LET k == CHOOSE x \in S : TRUE
                       IN table[k].vote_count + Sum(S \ {k})
        rows(b) == {k \in DOMAIN table : table[k].namu_is_tuxedo = b}
    IN {[namu_is_tuxedo |-> b, cnt |-> Sum(rows(b))] : b \in {b \in BOOLEAN : rows(b) # {}}}

\* SELECT namu_is_tuxedo, COUNT(*) AS cnt FROM votes GROUP BY namu_is_tuxedo:
\* one row for each value that some row of the table holds.
GroupCount(table) ==
    LET rows(b) == {k \in DOMAIN table : table[k].namu_is_tuxedo = b}
    IN {[namu_is_tuxedo |-> b, cnt |-> Cardinality(rows(b))] :
            b \in {b \in BOOLEAN : rows(b) # {}}}

\* The loop over rows.Next(): both counts start at 0.
Totals(rows) ==
    LET cnt(b) == IF \E row \in rows : row.namu_is_tuxedo = b
                  THEN (CHOOSE row \in rows : row.namu_is_tuxedo = b).cnt
                  ELSE 0
    IN [namu_is_tuxedo |-> cnt(TRUE), namu_is_not_tuxedo |-> cnt(FALSE)]

\* The votes being handled, counted against MaxVotes.
Executing == Cardinality({r \in Reqs : req[r].pc = "exec"})

VoteStart(r) ==
    /\ Serving
    /\ variant = "voting"
    /\ Free(r)
    /\ Len(ballots) + Executing < MaxVotes
    /\ \E m \in Methods, body \in VoteBodies :
         IF Rejected(m, "POST")
         THEN req' = [req EXCEPT ![r] = Answer(New("vote", m), RejectStatus(m))]
         ELSE IF Decode(body).err \/ Decode(body).Key = ""
         THEN req' = [req EXCEPT ![r] = Answer(New("vote", m), 400)]
         ELSE req' = [req EXCEPT ![r] =
                        [New("vote", m) EXCEPT !.pc = "exec",
                                               !.clientKey = Decode(body).Key,
                                               !.namuIsTuxedo = Decode(body).NamuIsTuxedo]]
    /\ UNCHANGED <<variant, proc, store, feedByKey, feedOrder, requestSeen,
                   feedByKeyMu, requestSeenMu, hist, side>>

\* dbPool.Exec: the upsert, or an error answered 500.
VoteExec(r) ==
    /\ At(r, "exec")
    /\ \E ok \in BOOLEAN :
         IF ok
         THEN /\ votes' = Upsert(votes, req[r].clientKey, req[r].namuIsTuxedo)
              /\ ballots' = Append(ballots, <<req[r].clientKey, req[r].namuIsTuxedo>>)
              /\ req' = [req EXCEPT ![r] = Answer(req[r], 200)]
         ELSE /\ UNCHANGED <<votes, ballots>>
              /\ req' = [req EXCEPT ![r] = Answer(req[r], 500)]
    /\ UNCHANGED <<variant, proc, store, feedByKey, feedOrder, requestSeen,
                   feedByKeyMu, requestSeenMu, hist, pager, uploaded>>

ConsensusStart(r) ==
    /\ Serving
    /\ variant = "voting"
    /\ Free(r)
    /\ \E m \in Methods :
         IF Rejected(m, "GET")
         THEN req' = [req EXCEPT ![r] = Answer(New("consensus", m), RejectStatus(m))]
         ELSE req' = [req EXCEPT ![r] = [New("consensus", m) EXCEPT !.pc = "query"]]
    /\ UNCHANGED <<variant, proc, store, feedByKey, feedOrder, requestSeen,
                   feedByKeyMu, requestSeenMu, hist, side>>

\* dbPool.Query and the scan of its rows, or an error answered 500.
ConsensusQuery(r) ==
    /\ At(r, "query")
    /\ \E ok \in BOOLEAN :
         IF ok
         THEN req' = [req EXCEPT ![r] =
                        Answer([req[r] EXCEPT !.totals = Totals(GroupCount(votes))], 200)]
         ELSE req' = [req EXCEPT ![r] = Answer(req[r], 500)]
    /\ UNCHANGED <<variant, proc, store, feedByKey, feedOrder, requestSeen,
                   feedByKeyMu, requestSeenMu, hist, side>>

VoteSteps(r) ==
    \/ VoteStart(r)
    \/ VoteExec(r)
    \/ ConsensusStart(r)
    \/ ConsensusQuery(r)

\* ------------------------------------------------- the pagination program
\* The program that serves /feed?limit=&cursor= straight from the store's
\* listing is not among the repository's files; its listing is modelled from
\* the specification's words (limit clamped to [1,100], default 5; the next
\* cursor when more results exist).  Its client is src/frontend/main.js.

\* The limit, clamped to [1, MaxPageSize], DefaultLimit when it is no number.
PageLimit(raw) ==
    IF raw # <<>> /\ Atoi(raw).ok
    THEN IF Atoi(raw).n < 1 THEN 1
         ELSE IF Atoi(raw).n > MaxPageSize THEN MaxPageSize ELSE Atoi(raw).n
    ELSE DefaultLimit

\* The store's continuation token for "the keys after key".
Token(key) == "after:" \o key

\* One page of the live listing: the first limit keys after the cursor, and
\* the next cursor when keys remain ("" when none do).
ListPage(s, cursor, limit) ==
    LET keys == SelectSeq(KeyOrder, LAMBDA k : k \in s)
        start == IF cursor = "" THEN 0
                 ELSE CHOOSE i \in 1..Len(keys) : Token(keys[i]) = cursor
        end == Min(start + limit, Len(keys))
    IN [urls |-> [i \in 1..(end - start) |-> URLOf(keys[start + i])],
        nextCursor |-> IF end < Len(keys) THEN Token(keys[end]) ELSE ""]

\* Mutant: fetchPage that sends no cursor.
NoCursorParam(cursor) == ""

\* if (cursor) params.set("cursor", cursor): the cursor sent with the fetch.
CursorParam(cursor) == cursor

\* loadMore up to its await: nothing when a fetch is in flight.
LoadMore ==
    IF pager.loading
    THEN UNCHANGED pager
    ELSE pager' = [pager EXCEPT !.loading = TRUE,
                                !.cursor = CursorParam(pager.nextCursor)]

\* The script runs: its last statement is loadMore().
PagerStart ==
    /\ Serving
    /\ variant = "pagination"
    /\ ~pager.started
    /\ pager' = [pager EXCEPT !.started = TRUE, !.loading = TRUE,
                              !.cursor = CursorParam(pager.nextCursor)]
    /\ UNCHANGED <<variant, proc, store, feedByKey, feedOrder, requestSeen,
                   feedByKeyMu, requestSeenMu, req, hist, votes, ballots, uploaded>>

\* onScroll near the end of the page: nothing without a next cursor.
PagerScroll ==
    /\ pager.started
    /\ IF pager.nextCursor = "" THEN UNCHANGED pager ELSE LoadMore
    /\ UNCHANGED <<variant, proc, store, feedByKey, feedOrder, requestSeen,
                   feedByKeyMu, requestSeenMu, req, hist, votes, ballots, uploaded>>

\* The fetch ends: the page is appended and nextCursor replaced, or the fetch
\* failed and nextCursor stays; either way loading is false again.
PagerResponse ==
    /\ pager.loading
    /\ \E ok \in IF pager.fails < MaxFails THEN BOOLEAN ELSE {TRUE} :
         IF ok
         THEN LET data == ListPage(store, pager.cursor, PageLimit(pager.limit))
              IN pager' = [pager EXCEPT
                             !.items = @ \o data.urls,
                             !.nextCursor = data.nextCursor,
                             !.text = IF data.nextCursor = "" THEN "" ELSE "Scroll for more",
                             !.loading = FALSE, !.cursor = ""]
         ELSE pager' = [pager EXCEPT !.text = "Load failed", !.loading = FALSE,
                                     !.cursor = "", !.fails = @ + 1]
    /\ UNCHANGED <<variant, proc, store, feedByKey, feedOrder, requestSeen,
                   feedByKeyMu, requestSeenMu, req, hist, votes, ballots, uploaded>>

\* ------------------------------------------------------------ specifications
Steps(r) ==
    \/ FeedSteps(r)
    \/ RefreshSteps(r)
    \/ UploadSteps(r)
    \/ Return(r)

\* Spec: every program, requests served concurrently.
Next ==
    \/ Startup
    \/ \E r \in Reqs :
         \/ FeedStart(r, FewLimitParams, {"x", ""})
         \/ FeedRandom(r, FewLimitParams)
         \/ FeedPrefix(r, FewLimitParams)
         \/ RefreshStart(r)
         \/ UploadStart(r, FewUploadFilenames)
         \/ Steps(r)

Spec == Init /\ [][Next]_vars

\* SpecSeq: every program, one request at a time, every input.
InitSeq == InitWith(Variants, MaxPrefixKeys)

NextSeq ==
    \/ Startup
    \/ FeedStart(1, LimitParams, {"x", ""})
    \/ FeedRandom(1, LimitParams)
    \/ FeedPrefix(1, LimitParams)
    \/ RefreshStart(1)
    \/ UploadStart(1, UploadFilenames)
    \/ Steps(1)

SpecSeq == InitSeq /\ [][NextSeq]_vars

\* SpecFixed: the per-client programs with the cache fixed after startup
\* (no /refresh, no /upload), requests of one client served concurrently.
InitFixed == InitWith(PerClientVariants, MaxKeys)

NextFixed ==
    \/ Startup
    \/ \E r \in Reqs :
         \/ FeedStart(r, FewLimitParams, {"x"})
         \/ FeedSteps(r)
         \/ Return(r)

SpecFixed == InitFixed /\ [][NextFixed]_vars

\* SpecTwo: the per-client programs with the cache fixed after startup,
\* requests of two clients served concurrently.
InitTwo == InitWith(PerClientVariants, MaxKeys)

NextTwo ==
    \/ Startup
    \/ \E r \in Reqs :
         \/ FeedStart(r, FewLimitParams, Clients)
         \/ FeedSteps(r)
         \/ Return(r)

SpecTwo == InitTwo /\ [][NextTwo]_vars

\* SpecLive: the per-client programs, requests served concurrently, under
\* fair scheduling.  The Go scheduler runs every runnable goroutine, and the
\* locks of package sync hand over to their waiters (a sync.Mutex waiter that
\* has waited 1ms is given the lock next; a blocked RWMutex.Lock keeps new
\* readers out): a request that can take a step again and again takes it.
InitLive == InitWith(PerClientVariants, MaxKeys)

NextLive ==
    \/ Startup
    \/ \E r \in Reqs :
         \/ FeedStart(r, {<<"2">>}, {"x"})
         \/ RefreshStart(r)
         \/ UploadStart(r, FewUploadFilenames)
         \/ Steps(r)

SpecLive == InitLive /\ [][NextLive]_vars /\ \A r \in Reqs : SF_vars(Steps(r))

\* SpecBig: the refresh program's /upload and /refresh, served concurrently,
\* over a bucket that holds MAX_KEYS objects or a few.
InitBig ==
    /\ variant = "refresh"
    /\ proc = "starting"
    /\ store \in BigStores(variant, MaxKeys)
    /\ feedByKey = EmptyMap
    /\ feedOrder = <<>>
    /\ requestSeen = [c \in {} |-> {}]
    /\ feedByKeyMu = [readers |-> {}, writer |-> 0, pending |-> 0]
    /\ requestSeenMu = 0
    /\ req = [r \in Reqs |-> Idle]
    /\ delivered = [c \in Clients |-> <<>>]
    /\ calls = [c \in Clients |-> 0]
    /\ votes = NoVotes
    /\ ballots = <<>>
    /\ pager = NoPager
    /\ uploaded = {}

NextBig ==
    \/ Startup
    \/ \E r \in Reqs :
         \/ RefreshStart(r)
         \/ UploadStart(r, UploadFilenames)
         \/ RefreshSteps(r)
         \/ UploadPut(r)
         \/ Return(r)

SpecBig == InitBig /\ [][NextBig]_vars

\* SpecVote: the voting program's /vote and /consensus, served concurrently.
InitVote == InitWith({"voting"}, MaxKeys)

NextVote ==
    \/ Startup
    \/ \E r \in Reqs :
         \/ VoteSteps(r)
         \/ Return(r)

SpecVote == InitVote /\ [][NextVote]_vars

\* SpecPage: the pagination program and the cursor client, the store
\* unchanged: small buckets with every limit, and a bucket of more than
\* MAX_KEYS objects with the largest page.
PageLimitParams == {<<"1">>, <<"2">>, <<"4">>, <<"1", "0", "0">>, <<"1", "0", "1">>}
PageRuns ==
    {<<{KeyName(i) : i \in 1..n}, raw>> : n \in 0..MaxPrefixKeys, raw \in PageLimitParams}
        \cup {<<BulkKeys \cup {KeyName(i) : i \in 1..MaxKeys}, <<"1", "0", "0">>>>}

InitPage ==
    /\ variant = "pagination"
    /\ proc = "serving"
    /\ \E run \in PageRuns :
         /\ store = run[1]
         /\ pager = [NoPager EXCEPT !.limit = run[2]]
    /\ feedByKey = EmptyMap
    /\ feedOrder = <<>>
    /\ requestSeen = [c \in {} |-> {}]
    /\ feedByKeyMu = [readers |-> {}, writer |-> 0, pending |-> 0]
    /\ requestSeenMu = 0
    /\ req = [r \in Reqs |-> Idle]
    /\ delivered = [c \in Clients |-> <<>>]
    /\ calls = [c \in Clients |-> 0]
    /\ votes = NoVotes
    /\ ballots = <<>>
    /\ uploaded = {}

NextPage ==
    \/ PagerStart
    \/ PagerScroll
    \/ PagerResponse

SpecPage == InitPage /\ [][NextPage]_vars

\* ------------------------------------------------------------------- claims
NoDup(s) == \A i, j \in 1..Len(s) : i # j => s[i] # s[j]
FeedDone(r) == req[r].pc = "done" /\ req[r].kind = "feed" /\ req[r].status = 200
PerClient == variant \in PerClientVariants

\* A step of the program clears client c's non-empty seen set.
ClearsSeen(c) ==
    /\ c \in DOMAIN requestSeen
    /\ requestSeen[c] # {}
    /\ requestSeen'[c] = {}

\* C1 (SpecFixed): with the cache fixed, no URL is delivered to a client twice
\* within a cycle, and whenever the client's seen set is reset, the URLs
\* delivered since the previous reset are exactly the cached URLs, each once.
C1_CycleProperty ==
    /\ [](\A c \in Clients : \A u \in DOMAIN delivered[c] : delivered[c][u] = 1)
    /\ [][\A c \in Clients :
            ClearsSeen(c) => delivered[c] = [u \in CacheURLs |-> 1]]_vars

\* C1 witness: a request of a client who had seen all of a 3-URL cache has
\* reset the seen set and delivered again.
C1_Witness ==
    \E r \in Reqs :
        /\ FeedDone(r) /\ req[r].reset /\ req[r].n = 3
        /\ Cardinality(CacheURLs) = 3 /\ req[r].seenBefore = CacheURLs

\* C3 (SpecFixed): under every interleaving of one client's requests, no URL
\* is delivered twice within a cycle, and at most one request is between its
\* filter and its mark-seen step, the one holding requestSeenMu.
C3_NoDuplicateWithinCycle ==
    /\ \A c \in Clients : \A u \in DOMAIN delivered[c] : delivered[c][u] <= 1
    /\ \A r \in Reqs : req[r].pc \in {"filter", "pick"} <=> requestSeenMu = r

\* C3 witness: two requests of the same client are past their snapshots at
\* once, one inside the critical section and one waiting for the mutex.
C3_Witness ==
    \E r1, r2 \in Reqs :
        /\ req[r1].pc = "pick" /\ req[r2].pc = "lock"
        /\ req[r1].clientKey = req[r2].clientKey
        /\ req[r1].seenBefore # {}

\* The second call of the spec's example: the cache holds 3 URLs, the client
\* asks for limit=2, this is the second call of its cycle and the first
\* delivered 2 URLs.
ExampleCall(r, no, seenCount) ==
    /\ FeedDone(r) /\ PerClient
    /\ req[r].rawLimit = <<"2">> /\ req[r].n = 3 /\ Cardinality(CacheURLs) = 3
    /\ req[r].callNo = no /\ Cardinality(req[r].seenBefore) = seenCount
    /\ req[r].seenBefore \subseteq CacheURLs

ExampleCall1(r) ==
    ExampleCall(r, 1, 0) =>
        /\ Len(req[r].urls) = 2 /\ NoDup(req[r].urls)
        /\ Range(req[r].urls) \subseteq CacheURLs

\* C2 as stated (SpecSeq): in the example, call 1 returns 2 distinct cached
\* URLs and call 2 returns 2 URLs, the remaining unseen one and one repeat
\* from a freshly reset pool.
C2_Original ==
    \A r \in Reqs :
        /\ ExampleCall1(r)
        /\ ExampleCall(r, 2, 2) =>
              /\ Len(req[r].urls) = 2
              /\ req[r].reset
              /\ Cardinality(Range(req[r].urls) \ req[r].seenBefore) = 1
              /\ Cardinality(Range(req[r].urls) \cap req[r].seenBefore) = 1

\* C2 amended (SpecSeq): in the example, call 1 returns 2 distinct cached
\* URLs, call 2 returns exactly the 1 remaining unseen URL without a reset
\* (after it the client has seen all 3), and call 3 resets and returns 2
\* URLs the client had already seen.
C2_SecondCallReturnsRemainder ==
    \A r \in Reqs :
        /\ ExampleCall1(r)
        /\ ExampleCall(r, 2, 2) =>
              /\ Len(req[r].urls) = 1
              /\ ~req[r].reset
              /\ req[r].urls[1] \notin req[r].seenBefore
              /\ requestSeen[req[r].clientKey] = CacheURLs
        /\ ExampleCall(r, 3, 3) =>
              /\ Len(req[r].urls) = 2 /\ NoDup(req[r].urls)
              /\ req[r].reset
              /\ Range(req[r].urls) \subseteq req[r].seenBefore

\* C2 witness: the example's second call has been answered.
C2_Witness == \E r \in Reqs : ExampleCall(r, 2, 2)

\* C4 (Spec): no /feed response of any of the four programs holds a URL twice.
C4_NoDuplicateInResponse ==
    \A r \in Reqs : req[r].kind = "feed" => NoDup(req[r].urls)

\* C4 witness: a per-client response of 2 URLs drawn after a reset, where
\* every URL offered had been delivered before.
C4_Witness ==
    \E r \in Reqs : FeedDone(r) /\ PerClient /\ req[r].reset /\ Len(req[r].urls) = 2

\* What the limit parameter asks for: the number it spells when that is
\* positive, and 5 when it is absent, not a number, or not positive.
Invalid(raw) == raw \in {<<>>, <<"x">>, <<"0">>, <<"-", "1">>}
Asked(raw) ==
    CASE raw = <<"1">> -> 1
      [] raw = <<"2">> -> 2
      [] raw = <<"1", "0">> -> 10
      [] OTHER -> 5

\* The URLs of the cache the client had not seen when the call arrived, all
\* of them when it had seen every one.
Offered(r) ==
    IF CacheURLs \subseteq req[r].seenBefore THEN CacheURLs
    ELSE CacheURLs \ req[r].seenBefore

\* C5 as stated (SpecSeq): every /feed response holds exactly N URLs when the
\* limit exceeds the cache size N, and min(5, N) URLs when the limit is
\* absent, non-numeric or <= 0, whatever the client has seen.
C5_Original ==
    \A r \in Reqs : FeedDone(r) =>
        LET N == Cardinality(CacheURLs)
        IN /\ Asked(req[r].rawLimit) > N => Len(req[r].urls) = N
           /\ Invalid(req[r].rawLimit) => Len(req[r].urls) = Min(5, N)

\* C5 amended (SpecSeq): a response never holds more than N URLs; an absent,
\* non-numeric or non-positive limit is served as 5; the stateless programs
\* return exactly min(limit, N) URLs, and the per-client programs return
\* min(limit, U) URLs, U being the number of cached URLs the client has not
\* seen, or N when it has seen them all.
C5_LimitClamped ==
    \A r \in Reqs : FeedDone(r) =>
        LET N == Cardinality(CacheURLs)
            L == Asked(req[r].rawLimit)
        IN /\ Len(req[r].urls) <= N
           /\ ~PerClient => Len(req[r].urls) = Min(L, N)
           /\ PerClient => Len(req[r].urls) = Min(L, Cardinality(Offered(r)))

\* C5 witness: a per-client request whose limit, 10, exceeds the cache size
\* is answered with fewer URLs than the cache holds.
C5_Witness ==
    \E r \in Reqs :
        /\ FeedDone(r) /\ PerClient /\ req[r].rawLimit = <<"1", "0">>
        /\ Len(req[r].urls) > 0 /\ Len(req[r].urls) < Cardinality(CacheURLs)

\* C6 (SpecSeq): a per-client call that finds every URL of the non-empty
\* cache in the client's seen set clears the set and samples the cache, so
\* that after the call the seen set is exactly the set of URLs returned, all
\* of them delivered before, min(L, N) in number.
C6_ResetOnExhaustion ==
    \A r \in Reqs :
        (FeedDone(r) /\ PerClient /\ CacheURLs # {}
            /\ CacheURLs \subseteq req[r].seenBefore) =>
        /\ req[r].reset
        /\ requestSeen[req[r].clientKey] = Range(req[r].urls)
        /\ Range(req[r].urls) \subseteq CacheURLs
        /\ Len(req[r].urls) = Min(Asked(req[r].rawLimit), Cardinality(CacheURLs))

\* C6 witness: a client that had seen all 3 cached URLs gets 2 of them again.
C6_Witness ==
    \E r \in Reqs :
        /\ FeedDone(r) /\ PerClient /\ Cardinality(CacheURLs) = 3
        /\ req[r].seenBefore = CacheURLs /\ Len(req[r].urls) = 2
        /\ requestSeen[req[r].clientKey] = Range(req[r].urls)

\* C7 (Spec): under every interleaving of /feed, /refresh and /upload, each
\* client's seen set holds only URLs of the cache, distinct keys of the cache
\* have distinct URLs, and no step removes or changes a cache entry.
C7_SeenWithinCache ==
    /\ [](\A c \in DOMAIN requestSeen : requestSeen[c] \subseteq CacheURLs)
    /\ [](\A k1, k2 \in DOMAIN feedByKey : k1 # k2 => feedByKey[k1] # feedByKey[k2])
    /\ [][/\ CacheURLs \subseteq CacheURLs'
          /\ \A k \in DOMAIN feedByKey :
                k \in DOMAIN feedByKey' /\ feedByKey'[k] = feedByKey[k]]_vars

\* C7 witness: the cache has grown to 3 entries while a request still holds
\* a snapshot of 2, and the client has seen some URLs but not all.
C7_Witness ==
    \E r \in Reqs :
        /\ req[r].pc = "lock" /\ req[r].n = 2 /\ Cardinality(CacheURLs) = 3
        /\ "x" \in DOMAIN requestSeen /\ requestSeen["x"] # {}
        /\ requestSeen["x"] # CacheURLs

\* A step in which request r merges its listing into the cache.
Merges(r) == req[r].pc = "merge" /\ req'[r].pc = "done"

\* C8 (Spec): a /refresh merge keeps every cache entry as it is and adds
\* exactly one entry, publicBaseURL/key, for each listed non-empty key not yet
\* present; the count it returns is the size of the cache after the merge; a
\* merge of a listing whose keys are all present changes nothing.
C8_RefreshOnlyAdds ==
    [][\A r \in Reqs : Merges(r) =>
        LET listed == Range(req[r].listed) \ {""}
        IN /\ DOMAIN feedByKey' = DOMAIN feedByKey \cup listed
           /\ \A k \in DOMAIN feedByKey : feedByKey'[k] = feedByKey[k]
           /\ \A k \in listed \ DOMAIN feedByKey :
                 feedByKey'[k] = PublicBaseURL \o "/" \o k
           /\ req'[r].status = 200
           /\ req'[r].count = Cardinality(DOMAIN feedByKey')
           /\ listed \subseteq DOMAIN feedByKey => feedByKey' = feedByKey]_vars

\* C8 witness: a refresh whose listing held an entry without a key has
\* answered a count of 3, larger than the snapshot of 2 entries another
\* request took before the merge.
C8_Witness ==
    \E r1, r2 \in Reqs :
        /\ req[r1].kind = "refresh" /\ req[r1].pc = "done" /\ req[r1].status = 200
        /\ req[r1].count = 3 /\ "" \in Range(req[r1].listed)
        /\ req[r2].pc = "lock" /\ req[r2].n = 2

\* C9 (Spec): a /refresh whose listing fails is answered 500 at once, with
\* the cache, the seen sets and the store as they were and the process still
\* serving; a listing is asked for once per request; a process whose startup
\* listing failed never takes a request.
C9_ListFailureNotFatal ==
    /\ [][\A r \in Reqs :
            req[r].pc = "list" =>
                \/ req'[r] = req[r]
                \/ req'[r].pc = "wlock" /\ req'[r].status = 0
                \/ /\ req'[r].pc = "done" /\ req'[r].status = 500
                   /\ UNCHANGED <<feedByKey, requestSeen, store, proc>>
                   /\ proc = "serving"]_vars
    /\ [](\A r \in Reqs :
            (req[r].kind = "refresh" /\ req[r].status = 500) =>
                proc = "serving" /\ ENABLED Return(r))
    /\ [](proc = "exited" => feedByKey = EmptyMap /\ \A r \in Reqs : req[r] = Idle)
    /\ [][proc = "exited" => proc' = "exited"]_vars

\* C9 witness: a refresh has been answered 500 while the cache holds entries
\* and the client has seen some.
C9_Witness ==
    \E r \in Reqs :
        /\ req[r].kind = "refresh" /\ req[r].pc = "done" /\ req[r].status = 500
        /\ CacheURLs # {}
        /\ "x" \in DOMAIN requestSeen /\ requestSeen["x"] # {}

\* C10 (Spec): a per-client GET /feed without a client key is answered 400 in
\* its first step, whatever its limit, and that step leaves the seen sets and
\* the cache as they were; no seen set is ever made for the empty key.
C10_MissingKeyRejected ==
    /\ [](\A r \in Reqs :
            (PerClient /\ req[r].kind = "feed" /\ req[r].method = "GET"
                /\ req[r].clientKey = "") =>
            req[r].pc = "done" /\ req[r].status = 400 /\ req[r].urls = <<>>)
    /\ []("" \notin DOMAIN requestSeen)
    /\ [][\A r \in Reqs :
            (req'[r].kind = "feed" /\ req'[r].status = 400 /\ req[r].pc = "idle") =>
                UNCHANGED <<requestSeen, feedByKey>>]_vars

\* C10 witness: a keyless request with limit=2 has been answered 400 while
\* the client "x" has a non-empty seen set.
C10_Witness ==
    \E r \in Reqs :
        /\ req[r].kind = "feed" /\ req[r].status = 400 /\ req[r].rawLimit = <<"2">>
        /\ "x" \in DOMAIN requestSeen /\ requestSeen["x"] # {}

\* C11 (Spec): a per-client /feed request with a client key that finds the
\* cache empty is answered 200 with no URLs by the step that took the
\* snapshot, and that step leaves the seen sets as they were; no request
\* reaches the seen-set section with an empty snapshot.
C11_EmptyCacheEmptyFeed ==
    /\ [][\A r \in Reqs :
            (req[r].pc = "snapshot" /\ req'[r].pc # "snapshot" /\ feedByKey = EmptyMap) =>
                /\ req'[r].pc = "done" /\ req'[r].status = 200 /\ req'[r].urls = <<>>
                /\ UNCHANGED <<requestSeen, feedByKey>>]_vars
    /\ [](\A r \in Reqs : req[r].pc \in {"lock", "filter", "pick"} => req[r].n > 0)
    /\ [](feedByKey = EmptyMap => requestSeen = [c \in {} |-> {}])

\* C11 witness: the request of client "x" with limit=2 has been answered 200
\* with no URLs while the cache is empty.
C11_Witness ==
    \E r \in Reqs :
        /\ FeedDone(r) /\ req[r].clientKey = "x" /\ req[r].rawLimit = <<"2">>
        /\ req[r].urls = <<>> /\ feedByKey = EmptyMap /\ proc = "serving"

\* C12 (Spec): in the voting program an upload answered 200 has its key in
\* the cache, mapped to publicBaseURL/key, when the answer is made; no step
\* removes or changes a cache entry and every snapshot a /feed request takes
\* is the whole cache, so a request that starts after the answer has the URL
\* in its snapshot; an upload the store refuses is answered 500 with the
\* cache and the store as they were.
C12_UploadServable ==
    /\ [](\A r \in Reqs :
            (variant = "voting" /\ req[r].kind = "upload" /\ req[r].status = 200) =>
                /\ req[r].key \in DOMAIN feedByKey
                /\ feedByKey[req[r].key] = PublicBaseURL \o "/" \o req[r].key
                /\ req[r].key \in store)
    /\ [][variant = "voting" =>
            \A k \in DOMAIN feedByKey :
                k \in DOMAIN feedByKey' /\ feedByKey'[k] = feedByKey[k]]_vars
    /\ [][\A r \in Reqs :
            (req[r].pc = "snapshot" /\ req'[r].pc = "lock") =>
                req'[r].allURLs = {feedByKey[k] : k \in DOMAIN feedByKey}]_vars
    /\ [][\A r \in Reqs :
            (variant = "voting" /\ req[r].pc = "put" /\ req'[r].pc = "done") =>
                req'[r].status = 500 /\ UNCHANGED <<feedByKey, store>>]_vars

\* C12 witness: the upload of a key has been answered 200 and the cache maps
\* the key to its URL, which the snapshot another request took earlier lacks.
C12_Witness ==
    \E r1, r2 \in Reqs :
        /\ variant = "voting"
        /\ req[r1].kind = "upload" /\ req[r1].pc = "done" /\ req[r1].status = 200
        /\ req[r1].key \in DOMAIN feedByKey
        /\ req[r2].pc = "lock" /\ req[r2].n = 2
        /\ feedByKey[req[r1].key] \notin req[r2].allURLs

\* The clients of the accepted votes, the votes of one client, and a
\* client's most recent accepted vote.
Voters == {ballots[i][1] : i \in 1..Len(ballots)}
VotesOf(c) == {i \in 1..Len(ballots) : ballots[i][1] = c}
LastVote(c) == ballots[CHOOSE i \in VotesOf(c) : \A j \in VotesOf(c) : j <= i][2]

\* C13 (SpecVote): a /vote answered 200 for key k leaves a row for k that
\* holds the submitted value, with vote_count 1 when k had no row and one more
\* than before otherwise, and leaves every other row as it was; so a row's
\* vote_count is the number of votes accepted from its client.
C13_VoteUpsert ==
    /\ [][\A r \in Reqs :
            (req[r].pc = "exec" /\ req'[r].pc = "done" /\ req'[r].status = 200) =>
                LET k == req[r].clientKey
                IN /\ DOMAIN votes' = DOMAIN votes \cup {k}
                   /\ votes'[k].namu_is_tuxedo = req[r].namuIsTuxedo
                   /\ k \notin DOMAIN votes => votes'[k].vote_count = 1
                   /\ k \in DOMAIN votes =>
                        votes'[k].vote_count = votes[k].vote_count + 1
                   /\ \A c \in DOMAIN votes \ {k} : votes'[c] = votes[c]]_vars
    /\ [](\A c \in DOMAIN votes : votes[c].vote_count = Cardinality(VotesOf(c)))

\* C13 witness: after a vote of "y", "x" has voted the same value twice and
\* the second vote has been answered 200.
C13_Witness ==
    \E r \in Reqs :
        /\ req[r].kind = "vote" /\ req[r].pc = "done" /\ req[r].status = 200
        /\ Len(ballots) = 3 /\ ballots[1][1] = "y"
        /\ ballots[2] = ballots[3] /\ ballots[3][1] = "x"
        /\ votes["x"].vote_count = 2

\* C14 (SpecVote): the totals a /consensus answers count each client whose
\* vote was accepted once, under the value of the client's latest accepted
\* vote, so they sum to the number of such clients; a /vote answered 400 or
\* 500 leaves the table as it was.
C14_ConsensusTotals ==
    /\ [](\A r \in Reqs :
            (req[r].kind = "consensus" /\ req[r].status = 200) =>
                /\ req[r].totals.namu_is_tuxedo =
                      Cardinality({c \in Voters : LastVote(c)})
                /\ req[r].totals.namu_is_not_tuxedo =
                      Cardinality({c \in Voters : ~LastVote(c)})
                /\ req[r].totals.namu_is_tuxedo + req[r].totals.namu_is_not_tuxedo =
                      Cardinality(Voters))
    /\ [][\A r \in Reqs :
            (req'[r].kind = "vote" /\ req'[r].pc = "done" /\ req[r].pc # "done"
                /\ req'[r].status # 200) =>
                UNCHANGED <<votes, ballots>>]_vars
    /\ []("" \notin DOMAIN votes)

\* C14 witness: a /consensus has answered one client in each total after
\* three accepted votes, in which one client changed its vote.
C14_Witness ==
    \E r \in Reqs :
        /\ req[r].kind = "consensus" /\ req[r].pc = "done" /\ req[r].status = 200
        /\ req[r].totals = [namu_is_tuxedo |-> 1, namu_is_not_tuxedo |-> 1]
        /\ Len(ballots) = 3
        /\ ballots[1][1] = ballots[3][1] /\ ballots[1][2] # ballots[3][2]

\* The URL of every object of the store, in the store's key order.
StoreURLs == LET keys == SelectSeq(KeyOrder, LAMBDA k : k \in store)
             IN [i \in 1..Len(keys) |-> URLOf(keys[i])]

\* The client has received a page that carried no next cursor.
PagerFinished == pager.started /\ ~pager.loading /\ pager.text = ""

\* C15 (SpecPage): the images the cursor client has appended are always the
\* first objects of the store in key order, each once; when a page arrives
\* without a next cursor they are all the objects of the store; a fetch is
\* begun only by the script's first loadMore or with a next cursor at hand,
\* and none once the client has finished.
C15_CursorVisitsAllOnce ==
    /\ [](Cardinality(Range(pager.items)) = Len(pager.items))
    /\ [](Len(pager.items) <= Len(StoreURLs)
            /\ pager.items = SubSeq(StoreURLs, 1, Len(pager.items)))
    /\ [](PagerFinished => pager.items = StoreURLs)
    /\ [][(pager'.loading /\ ~pager.loading) =>
            ~pager.started \/ pager.nextCursor # ""]_vars
    /\ [][PagerFinished => pager' = pager]_vars

\* C15 witness: the client has finished with pages of 2 over 5 objects, after
\* a fetch that failed and was repeated.
C15_Witness ==
    /\ PagerFinished /\ pager.limit = <<"2">> /\ pager.fails = 1
    /\ Len(pager.items) = 5

\* The same with the largest page: the client has finished over more than
\* MAX_KEYS objects with pages of MaxPageSize.
C15_WitnessLargePage ==
    PagerFinished /\ Len(pager.items) > MAX_KEYS /\ pager.limit = <<"1", "0", "0">>

\* C16 (Spec): whenever a /feed request clears a client's seen set, the seen
\* set holds every URL the cache holds at that moment.  The code does not
\* keep this: the request compares the seen set with the snapshot it took
\* before entering the seen-set section, and the cache may have grown since.
C16_ClearCoversCache ==
    [][\A c \in Clients : ClearsSeen(c) => CacheURLs \subseteq requestSeen[c]]_vars

\* The locks request r holds.
HoldsCache(r) == r \in feedByKeyMu.readers \/ feedByKeyMu.writer = r
HoldsSeen(r) == requestSeenMu = r

\* C17 (SpecLive): a request holds the cache lock only while it copies,
\* merges or records, and the seen-set lock only from its filter to its
\* marking: never both, none during an object-store call, none once it has
\* answered; and under fair scheduling every request is answered.
C17_RequestsComplete ==
    /\ [](\A r \in Reqs :
            /\ HoldsCache(r) <=> req[r].pc \in {"snapshot", "merge", "record"}
            /\ HoldsSeen(r) <=> req[r].pc \in {"filter", "pick"}
            /\ ~(HoldsCache(r) /\ HoldsSeen(r))
            /\ req[r].pc \in {"list", "put", "idle", "done"} =>
                  ~HoldsCache(r) /\ ~HoldsSeen(r))
    /\ [](requestSeenMu \in Reqs \cup {0} /\ feedByKeyMu.writer \in Reqs \cup {0}
            /\ feedByKeyMu.readers \subseteq Reqs
            /\ (feedByKeyMu.writer # 0 => feedByKeyMu.readers = {})
            /\ \A r \in Reqs : feedByKeyMu.pending = r <=> req[r].pc = "wwait")
    /\ \A r \in Reqs : (req[r].pc \notin {"idle", "done"}) ~> (req[r].pc = "done")

\* C17 witness: one request waits for the seen-set lock that the other holds
\* between its filter and its marking.
C17_Witness ==
    \E r1, r2 \in Reqs :
        /\ req[r1].pc = "pick" /\ requestSeenMu = r1
        /\ req[r2].pc = "lock" /\ ~ENABLED FeedLock(r2)

\* C18 (SpecBig): in the refresh program, when a /refresh that listed the
\* bucket after an upload of key k was answered 200 is itself answered 200,
\* the cache holds k.  The code does not keep this: the handler asks for one
\* listing of at most MAX_KEYS keys and never for the rest, so a key that
\* sorts after MAX_KEYS others is never merged.
C18_UploadThenRefresh ==
    \A r \in Reqs :
        (req[r].kind = "refresh" /\ req[r].pc = "done" /\ req[r].status = 200) =>
            \A k \in req[r].known : k \in DOMAIN feedByKey

\* The URLs delivered to client c since its seen set was last cleared.
DeliveredTo(c) == {u \in DOMAIN delivered[c] : delivered[c][u] > 0}

\* C19 (SpecTwo): a step of a /feed request leaves the cache as it was and
\* changes no seen set but that of the request's client key; a client's seen
\* set is always the set of URLs delivered to that client since its last
\* reset, and a request chooses among the snapshot URLs not yet delivered to
\* its own client, whatever other clients have been served.
C19_PerClientIsolation ==
    /\ [][\A r \in Reqs :
            (req[r].kind = "feed" /\ req'[r] # req[r]) =>
                /\ feedByKey' = feedByKey
                /\ \A c \in Clients \ {req[r].clientKey} :
                      /\ c \in DOMAIN requestSeen' <=> c \in DOMAIN requestSeen
                      /\ c \in DOMAIN requestSeen => requestSeen'[c] = requestSeen[c]]_vars
    /\ [](\A c \in DOMAIN requestSeen : requestSeen[c] = DeliveredTo(c))
    /\ [](\A r \in Reqs :
            (req[r].pc = "pick" /\ ~req[r].reset) =>
                req[r].available = req[r].allURLs \ DeliveredTo(req[r].clientKey))

\* C19 witness: client "y" has just been served a URL that client "x" has
\* already seen, and the two seen sets differ.
C19_Witness ==
    \E r \in Reqs :
        /\ FeedDone(r) /\ req[r].clientKey = "y"
        /\ "x" \in DOMAIN requestSeen /\ requestSeen["x"] # requestSeen["y"]
        /\ Range(req[r].urls) \cap requestSeen["x"] # {}

\* C20 (Spec): the step that answers a per-client /feed request returns
\* min(L, U) distinct URLs of its snapshot, at least one, where L is the limit
\* asked for, N the size of the snapshot and U the number of snapshot URLs
\* outside the seen set the request found, taken as N when there is none;
\* either none of the returned URLs was in that seen set, or the seen set
\* covered the snapshot and the request cleared it.
C20_CountAndNoMixing ==
    /\ [][\A r \in Reqs :
            (req[r].pc = "filter" /\ req'[r].pc = "pick") =>
                /\ req'[r].seenBefore = SeenOf(req[r].clientKey)
                /\ req'[r].reset <=> req[r].allURLs \subseteq SeenOf(req[r].clientKey)]_vars
    /\ [][\A r \in Reqs :
            (req[r].pc = "pick" /\ req'[r].pc = "done") =>
                LET all == req[r].allURLs
                    seen == req[r].seenBefore
                    L == ParseLimit(req[r].rawLimit)
                    N == Cardinality(all)
                    U == Cardinality(all \ seen)
                    out == req'[r].urls
                IN /\ N > 0 /\ req'[r].status = 200
                   /\ Len(out) = Min(L, IF U = 0 THEN N ELSE U)
                   /\ Len(out) >= 1
                   /\ Cardinality(Range(out)) = Len(out) /\ Range(out) \subseteq all
                   /\ \/ Range(out) \cap seen = {}
                      \/ all \subseteq seen /\ req[r].reset]_vars
    /\ [](\A r \in Reqs : (FeedDone(r) /\ req[r].n > 0) => Len(req[r].urls) >= 1)

\* C20 witness: asked for 2 with a snapshot of 3 of which the client had seen
\* 2, the request has answered the one unseen URL.
C20_Witness ==
    \E r \in Reqs :
        /\ FeedDone(r) /\ req[r].rawLimit = <<"2">> /\ req[r].n = 3
        /\ Cardinality(req[r].seenBefore) = 2 /\ ~req[r].reset
        /\ Len(req[r].urls) = 1 /\ req[r].urls[1] \notin req[r].seenBefore
====
